---- MODULE Spec2Model ----
(***************************************************************************)
(* Model of move_files_gui (src/src/main.rs): the background routine       *)
(* move_files_thread, which moves the files of an input path that match    *)
(* an extension filter into an output directory and reports every step as  *)
(* a line on a channel, and the application around it: MyApp::update,      *)
(* which starts a run on a worker thread when the button is clicked and    *)
(* drains the channel into the log.                                        *)
(*                                                                         *)
(* Strings are sequences of one-character strings, so that trimming,       *)
(* splitting, lowercasing and formatting are computed, not assumed.        *)
(* A path is a sequence of names (its components).                         *)
(***************************************************************************)
EXTENDS Integers, Sequences, FiniteSets, TLC

VARIABLES
    input_path,     \* move_files_thread parameter
    output_path,    \* move_files_thread parameter
    extensions,     \* move_files_thread parameter (raw text of the field)
    input_type,     \* move_files_thread parameter: "File" or "Directory"
    filter_exts,    \* local Vec<String> of normalized extensions
    pc,             \* position of the run inside move_files_thread
    result,         \* "none" while running, then "Ok" or "Err"
    sent,           \* every line passed to sender.send, in order
    dirs,           \* filesystem: the set of existing directories (paths)
    files,          \* filesystem: regular files, path |-> content identity
    walk,           \* WalkDir iterator: stack of open directory streams
    revisits,       \* number of entries returned that were added after opendir
    created,        \* outcome of fs::create_dir_all: "pending", "ok", "failed"
    validated,      \* outcome of the input check: "pending", "ok", "failed"
    ops,            \* history: every fs::rename attempted, in order
    decisions,      \* history: every should_move evaluated, in order
    files0,         \* history: files at the start of the run
    dirs0,          \* history: dirs at the start of the run
    nz,             \* harness for the extension normalisation taken alone
    log,            \* MyApp.log: the lines shown, in order
    log_rx,         \* MyApp.log_rx: "Some" while the app holds the receiver
    is_moving,      \* MyApp.is_moving
    received,       \* number of lines try_recv has taken from the channel
    ui_pc,          \* position of the UI thread inside MyApp::update
    window,         \* "open", or "closed" once the app has been dropped
    runs,           \* number of worker threads spawned so far
    dropped_in      \* history: engine position when the receiver was dropped

uiVars == <<log, log_rx, is_moving, received, ui_pc, window, runs, dropped_in>>

vars == <<input_path, output_path, extensions, input_type, filter_exts, pc,
          result, sent, dirs, files, walk, revisits, created, validated, ops,
          decisions, files0, dirs0, nz, uiVars>>

engineVars == <<input_path, output_path, extensions, input_type, filter_exts,
                pc, result, sent, dirs, files, walk, revisits, created,
                validated, ops, decisions, files0, dirs0>>

-----------------------------------------------------------------------------
(* Bounds of the model *)

\* longest extensions string the normalisation harness enumerates
MaxExtLen == 3
\* most entries created after opendir that one walk is allowed to return
MaxRevisit == 0
\* most runs started from the window
MaxRuns == 2
\* longest file name the filesystem accepts, in characters
NameMax == 7
\* most renames the environment lets fail in one run
MaxFail == 1

-----------------------------------------------------------------------------
(* Strings *)

\* Option::None (a value no string of the model equals)
None == <<"None">>

\* char::is_whitespace, on the characters of the model
IsWhitespace(c) == c = " "

\* char::to_lowercase, on the characters of the model
ToLowerChar(c) ==
    CASE c = "T" -> "t"
      [] c = "A" -> "a"
      [] OTHER   -> c

\* str::to_lowercase
to_lowercase(s) == [i \in 1..Len(s) |-> ToLowerChar(s[i])]

\* str::trim_start (whitespace)
RECURSIVE trim_start(_)
trim_start(s) ==
    IF s # <<>> /\ IsWhitespace(Head(s)) THEN trim_start(Tail(s)) ELSE s

\* str::trim_end (whitespace)
RECURSIVE trim_end(_)
trim_end(s) ==
    IF s # <<>> /\ IsWhitespace(s[Len(s)])
    THEN trim_end(SubSeq(s, 1, Len(s) - 1))
    ELSE s

\* str::trim
trim(s) == trim_end(trim_start(s))

\* str::strip_prefix('.') with the text kept when there is no dot: removes
\* the pattern once
strip_one_dot(s) ==
    IF s # <<>> /\ Head(s) = "." THEN Tail(s) ELSE s

\* str::trim_start_matches('.'): removes the pattern repeatedly
RECURSIVE trim_start_matches_dot(_)
trim_start_matches_dot(s) ==
    IF s # <<>> /\ Head(s) = "." THEN trim_start_matches_dot(Tail(s)) ELSE s

\* str::split(','): the pieces between commas, empty pieces included
RECURSIVE split_comma(_, _)
split_comma(s, cur) ==
    IF s = <<>> THEN <<cur>>
    ELSE IF Head(s) = "," THEN <<cur>> \o split_comma(Tail(s), <<>>)
    ELSE split_comma(Tail(s), Append(cur, Head(s)))

\* the closure of .map(): trim, strip leading dots, lowercase
NormalizeEntry(s) == to_lowercase(trim_start_matches_dot(trim(s)))

\* extensions.split(',').map(..).filter(|s| !s.is_empty()).collect()
FilterExts(ext) ==
    LET pieces == split_comma(ext, <<>>)
        mapped == [i \in 1..Len(pieces) |-> NormalizeEntry(pieces[i])]
    IN  SelectSeq(mapped, LAMBDA e : e # <<>>)

\* Vec::contains
Contains(v, x) == \E i \in 1..Len(v) : v[i] = x

\* the entries of a Vec, as a set
Entries(v) == {v[i] : i \in 1..Len(v)}

\* entries joined with commas (the text a user would type for that list)
RECURSIVE JoinComma(_)
JoinComma(v) ==
    IF v = <<>> THEN <<>>
    ELSE IF Len(v) = 1 THEN v[1]
    ELSE v[1] \o <<",">> \o JoinComma(Tail(v))

\* integer to decimal text, as format!("{}", counter)
Digit(d) == <<"0", "1", "2", "3", "4", "5", "6", "7", "8", "9">>[d + 1]

RECURSIVE Decimal(_)
Decimal(n) == IF n < 10 THEN <<Digit(n)>> ELSE Append(Decimal(n \div 10), Digit(n % 10))

-----------------------------------------------------------------------------
(* Paths: std::path *)

\* OsStr::to_str: None when the text is not valid Unicode
InvalidByte == "\\xFF"

to_str(s) == IF \E i \in 1..Len(s) : s[i] = InvalidByte THEN None ELSE s

\* PathBuf::join with a single name
join(dir, name) == Append(dir, name)

\* Path::parent
parent(p) == SubSeq(p, 1, Len(p) - 1)

\* Path::file_name: the last component, None when there is none
file_name(p) == IF Len(p) = 0 THEN None ELSE p[Len(p)]

\* index of the last '.' of a name at or before position i, 0 when none
RECURSIVE LastDotFrom(_, _)
LastDotFrom(name, i) ==
    IF i = 0 THEN 0
    ELSE IF name[i] = "." THEN i
    ELSE LastDotFrom(name, i - 1)

\* index of the last '.' of a name, 0 when it has none
LastDot(name) == LastDotFrom(name, Len(name))

\* Path::extension: the text after the last '.', None when the name has no
\* '.' or its only '.' is its first character
extension(p) ==
    LET name == file_name(p)
        i    == LastDot(name)
    IN  IF name = None \/ i <= 1 THEN None
        ELSE SubSeq(name, i + 1, Len(name))

\* Path::file_stem: the name without the extension
file_stem(p) ==
    LET name == file_name(p)
        i    == LastDot(name)
    IN  IF name = None THEN None
        ELSE IF i <= 1 THEN name
        ELSE SubSeq(name, 1, i - 1)

\* x.and_then(|s| s.to_str())
and_then_to_str(x) == IF x = None THEN None ELSE to_str(x)

-----------------------------------------------------------------------------
(* Filesystem: std::fs and walkdir *)

\* Path::exists
exists(p) == p \in dirs \/ p \in DOMAIN files

\* Path::is_dir
is_dir(p) == p \in dirs

\* Path::is_file
is_file(p) == p \in DOMAIN files

\* the names of the entries of directory d
Children(d) ==
    {p[Len(p)] : p \in {q \in dirs \cup DOMAIN files : Len(q) > 0 /\ parent(q) = d}}

\* the non-empty prefixes of a path, the path included
Prefixes(p) == {SubSeq(p, 1, k) : k \in 1..Len(p)}

\* fs::create_dir_all: every outcome [ok, dirs] it can have. The missing
\* components are created from the top down; a mkdir can fail for reasons
\* outside the program, and the components created before it stay.
\* (variant: reports success without creating anything)
CreateDirAll_NoCreate(path) ==
    {[ok |-> TRUE, dirs |-> dirs]}

create_dir_all(path) ==
    LET missing == {q \in Prefixes(path) : q \notin dirs}
        n       == Cardinality(missing)
        first(j) == {q \in missing : Len(q) <= Len(path) - n + j}
    IN  IF \E q \in Prefixes(path) : q \in DOMAIN files
        THEN {[ok |-> FALSE, dirs |-> dirs]}
        ELSE {[ok |-> (j = n), dirs |-> dirs \cup first(j)] : j \in 0..n}

\* fs::rename(src, dst) when it succeeds: the file leaves src and is at dst
\* (a regular file already at dst would be replaced)
Renamed(src, dst) ==
    [p \in (DOMAIN files \ {src}) \cup {dst} |->
        IF p = dst THEN files[src] ELSE files[p]]

\* whether fs::rename(src, dst) can succeed at all: the filesystem refuses a
\* name longer than its limit
CanRename(src, dst) ==
    /\ is_file(src)
    /\ is_dir(parent(dst))
    /\ ~is_dir(dst)
    /\ Len(file_name(dst)) <= NameMax

-----------------------------------------------------------------------------
(* The lines sent on the channel *)

Line(kind, src, dst) == [kind |-> kind, src |-> src, dst |-> dst]

\* "{} is not a valid directory.\n" / "{} is not a valid file.\n"
InvalidLine(p) == Line("is not a valid", p, <<>>)

\* "Moved: {} -> {}\n"
MovedLine(src, dst) == Line("Moved", src, dst)

\* "Error moving {}: {}\n"
ErrorLine(src) == Line("Error moving", src, <<>>)

\* "Warning: Skipping file with invalid name: {}\n"
SkipLine(src) == Line("Warning: Skipping", src, <<>>)

\* "Moving completed successfully.\n"
CompletedLine == Line("Moving completed successfully.", <<>>, <<>>)

-----------------------------------------------------------------------------
(* move_files_thread: the per-file steps *)

\* let should_move = if filter_exts.is_empty() { true } else if let Some(ext)
\* = file_path.extension().and_then(|s| s.to_str()) { filter_exts.contains(
\* &ext.to_lowercase()) } else { false }
\* (variant: the file's extension is compared as written)
should_move_CaseSensitive(flt, file_path) ==
    LET ext == and_then_to_str(extension(file_path))
    IN  IF flt = <<>> THEN TRUE
        ELSE IF ext # None THEN Contains(flt, ext)
        ELSE FALSE

should_move(flt, file_path) ==
    LET ext == and_then_to_str(extension(file_path))
    IN  IF flt = <<>> THEN TRUE
        ELSE IF ext # None THEN Contains(flt, to_lowercase(ext))
        ELSE FALSE

\* the name built inside the while loop:
\* format!("{}_{}.{}", stem, counter, extension) or format!("{}_{}", stem, counter)
new_name(file_path, counter) ==
    LET s    == and_then_to_str(file_stem(file_path))
        stem == IF s = None THEN <<"f", "i", "l", "e">> ELSE s
        ext  == and_then_to_str(extension(file_path))
    IN  IF ext # None
        THEN stem \o <<"_">> \o Decimal(counter) \o <<".">> \o ext
        ELSE stem \o <<"_">> \o Decimal(counter)

\* while dest_path.exists() { dest_path = output_dir.join(new_name); counter += 1 }
RECURSIVE probe(_, _, _)
probe(dest_path, counter, file_path) ==
    IF exists(dest_path)
    THEN probe(join(output_path, new_name(file_path, counter)), counter + 1, file_path)
    ELSE dest_path

\* let mut dest_path = output_dir.join(file_name); let mut counter = 1; while ..
\* (variant: the counter starts at 2)
resolve_dest_FromTwo(file_path) ==
    probe(join(output_path, file_name(file_path)), 2, file_path)

resolve_dest(file_path) ==
    probe(join(output_path, file_name(file_path)), 1, file_path)

\* number of renames that have failed so far
Failed == Cardinality({i \in 1..Len(ops) : ~ops[i].ok})

\* the outcomes fs::rename(src, dst) can have: it cannot succeed when the
\* source is gone or the target is a directory, and it can fail for reasons
\* outside the program (another volume, permissions)
RenameOutcomes(src, dst) ==
    {ok \in BOOLEAN : /\ ok => CanRename(src, dst)
                      /\ ~ok => (~CanRename(src, dst) \/ Failed < MaxFail)}

\* the line sent after a failed rename, and whether the run goes on
\* (variant: nothing is sent)
OnRenameErr_Silent(src) == <<>>

OnRenameErr(src) == <<ErrorLine(src)>>

\* the body of `if should_move { .. }` for one file: the values it leaves in
\* files, sent and ops when fs::rename ends as renameOk says
MoveOne(file_path, renameOk) ==
    IF file_name(file_path) = None
    THEN [files |-> files, sent |-> Append(sent, SkipLine(file_path)), ops |-> ops]
    ELSE
        LET dest_path == resolve_dest(file_path)
            op == [src |-> file_path, dst |-> dest_path, id |-> files[file_path],
                   ok |-> renameOk, taken |-> Children(output_path)]
        IN  IF renameOk
            THEN [files |-> Renamed(file_path, dest_path),
                  sent  |-> Append(sent, MovedLine(file_path, dest_path)),
                  ops   |-> Append(ops, op)]
            ELSE [files |-> files,
                  sent  |-> sent \o OnRenameErr(file_path),
                  ops   |-> Append(ops, op)]

\* one open directory of the walk: the entries read_dir still has to return
\* (pending) and the entries created since it was opened, which it may or
\* may not return (maybe)
Frame(d) == [dir |-> d, pending |-> Children(d), maybe |-> {}]

\* the open directories after a rename: the source name is no longer listed,
\* the new name may be listed by a stream that is open on its directory
WalkAfterRename(w, src, dst) ==
    [i \in 1..Len(w) |->
        [dir     |-> w[i].dir,
         pending |-> IF w[i].dir = parent(src)
                     THEN w[i].pending \ {file_name(src)} ELSE w[i].pending,
         maybe   |-> (IF w[i].dir = parent(src)
                      THEN w[i].maybe \ {file_name(src)} ELSE w[i].maybe)
                     \cup (IF w[i].dir = parent(dst) THEN {file_name(dst)} ELSE {})]]

-----------------------------------------------------------------------------
(* The runs that are explored *)

S   == <<"s">>                          \* the input directory
D   == <<"d">>                          \* a subdirectory of it, and a file name
O   == <<"o">>                          \* the name of the output directory
N   == <<"n">>                          \* a directory outside the input tree
AT  == <<"a", ".", "T">>                \* a.T

\* output directory outside the input tree, inside it, and the input itself
OutputPaths == {<<N, O>>, <<S, O>>, <<S>>}

\* a directory, and a path that is a regular file or nothing
InputPaths == {<<S>>, <<S, AT>>}

\* the text of the extensions field: blank, " .T" and ". "
ExtChoices == {<<" ">>, <<" ", ".", "T">>, <<".", " ">>}

\* where the files of the initial filesystem may be
Candidates(out) ==
    << <<S, AT>>, <<S, D, AT>>, <<S, D, D>>, join(out, AT) >>

NzOff == [step |-> "off", input |-> <<>>, first |-> <<>>, second |-> <<>>]

\* MyApp::default(): empty log, no receiver, not moving
UiIdle ==
    /\ log = <<>>
    /\ log_rx = "None"
    /\ is_moving = FALSE
    /\ received = 0
    /\ ui_pc = "panel"
    /\ window = "open"
    /\ runs = 0
    /\ dropped_in = "held"

Init ==
    \E out \in OutputPaths, inp \in InputPaths, ty \in {"File", "Directory"},
       ext \in ExtChoices, pre \in BOOLEAN, present \in SUBSET (1..4) :
        LET ds   == {<<S>>, <<S, D>>} \cup (IF pre THEN Prefixes(out) ELSE {})
            cand == Candidates(out)
            here == {cand[i] : i \in present}
        IN  /\ \A i \in present : parent(cand[i]) \in ds
            /\ input_path = inp
            /\ output_path = out
            /\ extensions = ext
            /\ input_type = ty
            /\ filter_exts = <<>>
            /\ pc = "create"
            /\ result = "none"
            /\ sent = <<>>
            /\ dirs = ds
            /\ files = [q \in here |-> CHOOSE i \in present :
                            cand[i] = q /\ \A j \in present : cand[j] = q => i <= j]
            /\ walk = <<>>
            /\ revisits = 0
            /\ created = "pending"
            /\ validated = "pending"
            /\ ops = <<>>
            /\ decisions = <<>>
            /\ files0 = files
            /\ dirs0 = ds
            /\ nz = NzOff
            /\ UiIdle

-----------------------------------------------------------------------------
(* move_files_thread *)

\* fs::create_dir_all(&output_dir)?; then the extensions are parsed
\* (variant: the error of create_dir_all is dropped and the run goes on)
CreateOutputDir_IgnoreErr ==
    /\ pc = "create"
    /\ \E r \in create_dir_all(output_path) :
        /\ dirs' = r.dirs
        /\ created' = IF r.ok THEN "ok" ELSE "failed"
        /\ filter_exts' = FilterExts(extensions)
        /\ pc' = "validate"
        /\ result' = result
    /\ UNCHANGED <<input_path, output_path, extensions, input_type, sent, files,
                   walk, revisits, validated, ops, decisions, files0, dirs0, nz, uiVars>>

CreateOutputDir ==
    /\ pc = "create"
    /\ \E r \in create_dir_all(output_path) :
        /\ dirs' = r.dirs
        /\ IF r.ok
           THEN /\ created' = "ok"
                /\ filter_exts' = FilterExts(extensions)
                /\ pc' = "validate"
                /\ result' = result
           ELSE /\ created' = "failed"
                /\ filter_exts' = filter_exts
                /\ pc' = "done"
                /\ result' = "Err"
    /\ UNCHANGED <<input_path, output_path, extensions, input_type, sent, files,
                   walk, revisits, validated, ops, decisions, files0, dirs0, nz, uiVars>>

\* whether the input path is what the selected mode needs
InputValid ==
    IF input_type = "Directory" THEN is_dir(input_path) ELSE is_file(input_path)

\* if !input_dir.is_dir() { send; return Err } / if !file_path.is_file() { .. }
ValidateInput ==
    /\ pc = "validate"
    /\ IF ~InputValid
       THEN /\ sent' = Append(sent, InvalidLine(input_path))
            /\ result' = "Err"
            /\ pc' = "done"
            /\ validated' = "failed"
            /\ walk' = walk
       ELSE /\ sent' = sent
            /\ result' = result
            /\ validated' = "ok"
            /\ IF input_type = "Directory"
               THEN pc' = "walk" /\ walk' = <<Frame(input_path)>>
               ELSE pc' = "single" /\ walk' = walk
    /\ UNCHANGED <<input_path, output_path, extensions, input_type, filter_exts,
                   dirs, files, revisits, created, ops, decisions, files0, dirs0, nz, uiVars>>

\* the body of the for loop, or of the single-file branch, for file_path
ProcessFile(file_path, w) ==
    LET sm == should_move(filter_exts, file_path)
    IN  /\ decisions' = Append(decisions, [path |-> file_path, move |-> sm])
        /\ IF sm
           THEN \E ok \in RenameOutcomes(file_path, resolve_dest(file_path)) :
                    LET r == MoveOne(file_path, ok)
                    IN  /\ files' = r.files
                        /\ sent' = r.sent
                        /\ ops' = r.ops
                        /\ walk' = IF ok /\ file_name(file_path) # None
                                   THEN WalkAfterRename(w, file_path, resolve_dest(file_path))
                                   ELSE w
           ELSE /\ files' = files
                /\ sent' = sent
                /\ ops' = ops
                /\ walk' = w

Top == walk[Len(walk)]

\* the stack with the top frame's entry n taken as returned
Returned(n) ==
    [walk EXCEPT ![Len(walk)] =
        [dir |-> Top.dir, pending |-> Top.pending \ {n}, maybe |-> Top.maybe \ {n}]]

\* the walk yields a regular file and the loop body runs on it; capped
\* says whether the entries created after opendir that the walk returns are
\* counted against MaxRevisit
WalkEntry(capped) ==
    /\ pc = "walk"
    /\ walk # <<>>
    /\ \E n \in Top.pending \cup Top.maybe :
        /\ n \in Top.pending \/ ~capped \/ revisits < MaxRevisit
        /\ is_file(join(Top.dir, n))
        /\ revisits' = IF n \in Top.pending THEN revisits ELSE revisits + 1
        /\ ProcessFile(join(Top.dir, n), Returned(n))
    /\ UNCHANGED <<input_path, output_path, extensions, input_type, filter_exts,
                   pc, result, dirs, created, validated, files0, dirs0, nz, uiVars>>

WalkFile == WalkEntry(TRUE)

\* the walk yields a directory (filtered out by is_file) and descends into it
WalkDescend ==
    /\ pc = "walk"
    /\ walk # <<>>
    /\ \E n \in Top.pending :
        /\ is_dir(join(Top.dir, n))
        /\ walk' = Append(Returned(n), Frame(join(Top.dir, n)))
    /\ UNCHANGED <<input_path, output_path, extensions, input_type, filter_exts,
                   pc, result, sent, dirs, files, revisits, created, validated,
                   ops, decisions, files0, dirs0, nz, uiVars>>

\* read_dir of the current directory is exhausted: back to its parent, or,
\* at the root, the for loop ends
\* (variant: the end of the root directory does not end the loop)
WalkPop_NotAtRoot ==
    /\ pc = "walk"
    /\ Len(walk) > 1
    /\ Top.pending = {}
    /\ walk' = SubSeq(walk, 1, Len(walk) - 1)
    /\ pc' = "walk"
    /\ UNCHANGED <<input_path, output_path, extensions, input_type, filter_exts,
                   result, sent, dirs, files, revisits, created, validated,
                   ops, decisions, files0, dirs0, nz, uiVars>>

WalkPop ==
    /\ pc = "walk"
    /\ walk # <<>>
    /\ Top.pending = {}
    /\ walk' = SubSeq(walk, 1, Len(walk) - 1)
    /\ pc' = IF Len(walk) = 1 THEN "complete" ELSE "walk"
    /\ UNCHANGED <<input_path, output_path, extensions, input_type, filter_exts,
                   result, sent, dirs, files, revisits, created, validated,
                   ops, decisions, files0, dirs0, nz, uiVars>>

\* the single-file branch
MoveSingle ==
    /\ pc = "single"
    /\ ProcessFile(input_path, walk)
    /\ pc' = "complete"
    /\ UNCHANGED <<input_path, output_path, extensions, input_type, filter_exts,
                   result, dirs, revisits, created, validated, files0, dirs0, nz, uiVars>>

\* let _ = sender.send("Moving completed successfully.\n"); Ok(())
\* (variant: the line is sent twice)
Complete_Twice ==
    /\ pc = "complete"
    /\ sent' = sent \o <<CompletedLine, CompletedLine>>
    /\ result' = "Ok"
    /\ pc' = "done"
    /\ UNCHANGED <<input_path, output_path, extensions, input_type, filter_exts,
                   dirs, files, walk, revisits, created, validated, ops,
                   decisions, files0, dirs0, nz, uiVars>>

Complete ==
    /\ pc = "complete"
    /\ sent' = Append(sent, CompletedLine)
    /\ result' = "Ok"
    /\ pc' = "done"
    /\ UNCHANGED <<input_path, output_path, extensions, input_type, filter_exts,
                   dirs, files, walk, revisits, created, validated, ops,
                   decisions, files0, dirs0, nz, uiVars>>

Next ==
    \/ CreateOutputDir
    \/ ValidateInput
    \/ WalkFile
    \/ WalkDescend
    \/ WalkPop
    \/ MoveSingle
    \/ Complete

Spec == Init /\ [][Next]_vars

-----------------------------------------------------------------------------
(* The run with an unrestricted directory walk: read_dir may return every   *)
(* entry created after the directory was opened, as often as the filesystem *)
(* lets new names appear; the worker thread keeps being scheduled           *)

WalkFileAny == WalkEntry(FALSE)

\* the runs with a blank filter whose output directory is inside the input
\* tree or is the input directory, on the files s/a.T and s/d/a.T
InitWalk ==
    /\ Init
    /\ extensions = <<" ">>
    /\ output_path \in {<<S, O>>, <<S>>}
    /\ DOMAIN files \subseteq {<<S, AT>>, <<S, D, AT>>}

NextWalk ==
    \/ CreateOutputDir
    \/ ValidateInput
    \/ WalkFileAny
    \/ WalkDescend
    \/ WalkPop
    \/ MoveSingle
    \/ Complete

SpecWalk == InitWalk /\ [][NextWalk]_vars /\ WF_vars(NextWalk)

-----------------------------------------------------------------------------
(* The extension normalisation taken alone: lines 66-70 applied to every    *)
(* short text of the extensions field, and applied again to its own result  *)

ExtAlphabet == {" ", ".", ",", "t", "T"}

ExtStrings == UNION {[1..k -> ExtAlphabet] : k \in 0..MaxExtLen}

InitExt ==
    /\ nz \in {[step |-> "input", input |-> e, first |-> <<>>, second |-> <<>>] :
                e \in ExtStrings}
    /\ input_path = <<S>>
    /\ output_path = <<S>>
    /\ extensions = <<>>
    /\ input_type = "Directory"
    /\ filter_exts = <<>>
    /\ pc = "idle"
    /\ result = "none"
    /\ sent = <<>>
    /\ dirs = {<<S>>}
    /\ files = <<>>
    /\ walk = <<>>
    /\ revisits = 0
    /\ created = "pending"
    /\ validated = "pending"
    /\ ops = <<>>
    /\ decisions = <<>>
    /\ files0 = <<>>
    /\ dirs0 = {<<S>>}
    /\ UiIdle

\* filter_exts computed from the text of the field
NzNormalize ==
    /\ nz.step = "input"
    /\ nz' = [nz EXCEPT !.step = "once", !.first = FilterExts(nz.input)]
    /\ UNCHANGED <<engineVars, uiVars>>

\* filter_exts computed from its own entries, joined with commas
NzAgain ==
    /\ nz.step = "once"
    /\ nz' = [nz EXCEPT !.step = "twice", !.second = FilterExts(JoinComma(nz.first))]
    /\ UNCHANGED <<engineVars, uiVars>>

NextExt == NzNormalize \/ NzAgain

SpecExt == InitExt /\ [][NextExt]_vars

-----------------------------------------------------------------------------
(* The application: MyApp::update on the UI thread, the worker thread it    *)
(* spawns, and the channel between them                                      *)

\* the lines in the channel: sent by the worker and not yet taken
Channel == SubSeq(sent, received + 1, Len(sent))

\* the worker's Sender exists until the spawned closure returns
SenderAlive == pc # "done"

\* mpsc::Receiver::try_recv: a buffered line if there is one, else Empty
\* while a sender exists, else Disconnected
\* (variant: a dropped sender is reported before the buffered lines)
try_recv_DisconnectedFirst(queue, senderAlive) ==
    IF ~senderAlive THEN "Disconnected"
    ELSE IF queue # <<>> THEN "Ok"
    ELSE "Empty"

\* (variant: a dropped sender is never reported, as when a clone of the
\* sender is kept alive)
try_recv_NeverDisconnected(queue, senderAlive) ==
    IF queue # <<>> THEN "Ok" ELSE "Empty"

try_recv(queue, senderAlive) ==
    IF queue # <<>> THEN "Ok"
    ELSE IF senderAlive THEN "Empty"
    ELSE "Disconnected"

\* mpsc::Sender::send on the unbounded channel: returns at once, with Err
\* when the receiver has been dropped
send(rx) == IF rx = "Some" THEN "Ok" ELSE "Err"

\* `let _ = sender.send(..)`: whether the thread goes on after the send
\* (variant: sender.send(..).unwrap(), the thread panics on Err)
discard_Unwrap(res) == res = "Ok"

discard(res) == TRUE

\* if let Some(rx) = &self.log_rx { loop { .. } }: where update begins
FrameStart(rx) == IF rx = "Some" THEN "drain" ELSE "panel"

\* the requests a click can carry: the text fields and the mode, cloned
InputTypes == {"File", "Directory"}
UiOutputs  == {<<N, O>>}
UiExts     == {<<" ">>, <<" ", ".", "T">>}

InitUI ==
    /\ input_path = <<S>>
    /\ output_path = <<S>>
    /\ extensions = <<>>
    /\ input_type = "Directory"
    /\ filter_exts = <<>>
    /\ pc = "idle"
    /\ result = "none"
    /\ sent = <<>>
    /\ dirs = {<<S>>, <<S, D>>}
    /\ files = (<<S, AT>> :> 1) @@ (<<S, D, D>> :> 2)
    /\ walk = <<>>
    /\ revisits = 0
    /\ created = "pending"
    /\ validated = "pending"
    /\ ops = <<>>
    /\ decisions = <<>>
    /\ files0 = files
    /\ dirs0 = dirs
    /\ nz = NzOff
    /\ UiIdle

\* one iteration of the loop in update: match rx.try_recv() { .. }
TryRecv ==
    /\ window = "open"
    /\ ui_pc = "drain"
    /\ LET r == try_recv(Channel, SenderAlive)
       IN  CASE r = "Ok" ->
                    /\ log' = Append(log, Head(Channel))
                    /\ received' = received + 1
                    /\ UNCHANGED <<log_rx, is_moving, ui_pc, dropped_in>>
             [] r = "Empty" ->
                    /\ ui_pc' = "panel"
                    /\ UNCHANGED <<log, received, log_rx, is_moving, dropped_in>>
             [] r = "Disconnected" ->
                    /\ is_moving' = FALSE
                    /\ log_rx' = "None"
                    /\ dropped_in' = pc
                    /\ ui_pc' = "panel"
                    /\ UNCHANGED <<log, received>>
    /\ UNCHANGED <<engineVars, nz, window, runs>>

\* thread::spawn(move || { let _ = move_files_thread(input_path, output_path,
\* extensions, input_type, tx); }): a run starts on clones of the fields
StartThread(inp, out, ext, ty) ==
    /\ runs' = runs + 1
    /\ input_path' = inp
    /\ output_path' = out
    /\ extensions' = ext
    /\ input_type' = ty
    /\ filter_exts' = <<>>
    /\ pc' = "create"
    /\ result' = "none"
    /\ sent' = <<>>
    /\ walk' = <<>>
    /\ revisits' = 0
    /\ created' = "pending"
    /\ validated' = "pending"
    /\ ops' = <<>>
    /\ decisions' = <<>>
    /\ files0' = files
    /\ dirs0' = dirs
    /\ UNCHANGED <<dirs, files>>

\* the body of the Move Files branch: log.clear(), a new channel whose
\* receiver goes to log_rx, is_moving = true, and the thread is spawned
\* (variant: the log is not cleared)
Spawn_KeepLog(inp, out, ext, ty) ==
    /\ log' = log
    /\ log_rx' = "Some"
    /\ is_moving' = TRUE
    /\ received' = 0
    /\ dropped_in' = "held"
    /\ StartThread(inp, out, ext, ty)

Spawn(inp, out, ext, ty) ==
    /\ log' = <<>>
    /\ log_rx' = "Some"
    /\ is_moving' = TRUE
    /\ received' = 0
    /\ dropped_in' = "held"
    /\ StartThread(inp, out, ext, ty)

\* if ui.button("Move Files").clicked() && !self.is_moving { .. }, clicked
\* (variant: the button does not look at is_moving)
ClickMove_Unguarded ==
    /\ window = "open"
    /\ ui_pc = "panel"
    /\ runs < MaxRuns
    /\ \E inp \in InputPaths, out \in UiOutputs, ext \in UiExts, ty \in InputTypes :
            Spawn(inp, out, ext, ty)
    /\ ui_pc' = FrameStart(log_rx')
    /\ UNCHANGED <<nz, window>>

ClickMove ==
    /\ window = "open"
    /\ ui_pc = "panel"
    /\ IF ~is_moving
       THEN /\ runs < MaxRuns
            /\ \E inp \in InputPaths, out \in UiOutputs, ext \in UiExts, ty \in InputTypes :
                    Spawn(inp, out, ext, ty)
       ELSE UNCHANGED <<engineVars, log, log_rx, is_moving, received, runs, dropped_in>>
    /\ ui_pc' = FrameStart(log_rx')
    /\ UNCHANGED <<nz, window>>

\* update returns without a click on the button; the next frame begins
\* (the log pane shows self.log; nobody types into it)
FrameEnd ==
    /\ window = "open"
    /\ ui_pc = "panel"
    /\ ui_pc' = FrameStart(log_rx)
    /\ UNCHANGED <<engineVars, nz, log, log_rx, is_moving, received, window, runs,
                   dropped_in>>

\* the window is closed: run_native returns and MyApp is dropped, with the
\* receiver it holds
CloseWindow ==
    /\ window = "open"
    /\ window' = "closed"
    /\ log_rx' = "None"
    /\ dropped_in' = IF log_rx = "Some" THEN pc ELSE dropped_in
    /\ UNCHANGED <<engineVars, nz, log, is_moving, received, ui_pc, runs>>

\* one step of the spawned thread: move_files_thread, every send of which
\* is a `let _ = sender.send(..)`
Worker ==
    /\ Next
    /\ sent' # sent => discard(send(log_rx))

NextUI ==
    \/ Worker
    \/ TryRecv
    \/ ClickMove
    \/ FrameEnd
    \/ CloseWindow

SpecUI == InitUI /\ [][NextUI]_vars

\* the UI thread keeps calling update while the window is open
UiStep == TryRecv \/ ClickMove \/ FrameEnd

SpecUIFair == SpecUI /\ WF_vars(UiStep)

-----------------------------------------------------------------------------
(* Properties *)

\* positions of the completion line among the lines sent
Completions == {i \in 1..Len(sent) : sent[i] = CompletedLine}

\* the run has returned
Done == pc = "done"

\* a run that got through directory creation and input validation
Passed == created = "ok" /\ validated = "ok"

\* p lies in directory d or below it
Under(p, d) == Len(p) > Len(d) /\ SubSeq(p, 1, Len(d)) = d

\* the regular files of the input tree when the run starts that pass the filter
EligibleAtStart ==
    {p \in DOMAIN files0 : Under(p, input_path) /\ should_move(filter_exts, p)}

\* the 'Moved' and 'Error moving' lines, in the order sent
FileEvents ==
    SelectSeq(sent, LAMBDA l : l.kind \in {"Moved", "Error moving"})

\* C1: a run that passes directory creation and input validation sends the
\* completion line exactly once, as its last line, and returns Ok; the line
\* is not sent before the end of such a run, and a run that fails setup or
\* validation never sends it.
C1_CompletedOnceAndLast ==
    /\ (Done /\ Passed) =>
          /\ result = "Ok"
          /\ Cardinality(Completions) = 1
          /\ sent[Len(sent)] = CompletedLine
    /\ ~Done => Completions = {}
    /\ (created = "failed" \/ validated = "failed") =>
          /\ Completions = {}
          /\ Done /\ result = "Err"

\* C1 happens: a finished Directory run in which a rename failed
C1_Witness ==
    Done /\ Passed /\ input_type = "Directory" /\ Failed > 0

\* C2: in a finished Directory run every eligible regular file has exactly
\* one 'Moved' or 'Error moving' line, and no real file is moved or reported
\* twice: the lines match the renames one to one, the renames are of
\* pairwise distinct files, and every eligible file has one.
C2_OneEventPerFile ==
    (Done /\ Passed /\ input_type = "Directory") =>
        /\ Len(FileEvents) = Len(ops)
        /\ \A k \in 1..Len(ops) :
              /\ FileEvents[k].src = ops[k].src
              /\ FileEvents[k].kind = IF ops[k].ok THEN "Moved" ELSE "Error moving"
        /\ \A i, j \in 1..Len(ops) : ops[i].id = ops[j].id => i = j
        /\ \A p \in EligibleAtStart : \E k \in 1..Len(ops) : ops[k].id = files0[p]

\* the n-th name of the sequence basename, stem_1.ext, stem_2.ext, ...
CandidateName(src, n) ==
    LET ext == extension(src)
    IN  IF n = 0 THEN file_name(src)
        ELSE IF ext = None
             THEN file_stem(src) \o <<"_">> \o Decimal(n)
             ELSE file_stem(src) \o <<"_">> \o Decimal(n) \o <<".">> \o ext

\* C3: the destination of every rename is the first name of the sequence
\* basename, stem_1.ext, stem_2.ext, ... that was free in the output
\* directory when the probe ran, so the suffix is the smallest free one.
C3_SmallestFreeSuffix ==
    \A k \in 1..Len(ops) :
        LET taken == ops[k].taken
            seq   == [n \in 0..Cardinality(taken) |-> CandidateName(ops[k].src, n)]
            free  == {n \in DOMAIN seq : seq[n] \notin taken}
        IN  \E n \in free :
                /\ \A m \in free : n <= m
                /\ ops[k].dst = join(output_path, seq[n])

\* C3 happens: a file got suffix 2 because suffix 1 was taken by an earlier
\* file of the same run
C3_Witness ==
    \E k, j \in 1..Len(ops) :
        /\ j < k
        /\ ops[j].ok /\ ops[j].dst = join(output_path, CandidateName(ops[j].src, 1))
        /\ ops[k].ok /\ ops[k].dst = join(output_path, CandidateName(ops[k].src, 2))
        /\ file_name(ops[j].src) = file_name(ops[k].src)

\* the files in the input tree (the input file itself in File mode) or in
\* the output directory
InScope(fs) ==
    {p \in DOMAIN fs :
        p = input_path \/ Under(p, input_path) \/ parent(p) = output_path}

\* C4: no rename targets a path that exists, every entry the output
\* directory had before the run is still there with its content, and the
\* number of files in the input tree and the output directory is constant.
C4_NoOverwriteNoLoss ==
    /\ \A k \in 1..Len(ops) : file_name(ops[k].dst) \notin ops[k].taken
    /\ \A p \in DOMAIN files0 :
          parent(p) = output_path => p \in DOMAIN files /\ files[p] = files0[p]
    /\ Cardinality(InScope(files)) = Cardinality(InScope(files0))

\* C5: a run whose input path does not match the selected mode sends the one
\* 'is not a valid' line, returns Err and moves nothing, and the output
\* directory exists all the same.
C5_InvalidInputAfterCreation ==
    /\ validated = "failed" =>
          /\ sent = <<InvalidLine(input_path)>>
          /\ Done /\ result = "Err"
          /\ ops = <<>> /\ decisions = <<>>
          /\ files = files0
          /\ is_dir(output_path)
    /\ (created = "ok" /\ pc # "validate"
          /\ (IF input_type = "Directory"
              THEN input_path \notin dirs
              ELSE input_path \notin DOMAIN files0))
       => validated = "failed"

\* C5 happens: the input was refused and the output directory is new
C5_Witness ==
    validated = "failed" /\ output_path \notin dirs0 /\ output_path \in dirs

\* C6: every run that aborts has sent exactly one line.
C6_AbortSendsOneLine ==
    (Done /\ result = "Err") => Len(sent) = 1

\* C7 as stated: when the creation of the output directory fails the run
\* ends with Err, nothing validated, enumerated or renamed, no completion
\* line, and a filesystem that is unchanged.
C7_Original ==
    created = "failed" =>
        /\ Done /\ result = "Err"
        /\ validated = "pending" /\ decisions = <<>> /\ ops = <<>>
        /\ Completions = {}
        /\ files = files0
        /\ dirs = dirs0

\* C7 amended: as above, except that the directories may have grown by
\* missing ancestors of the output directory, created before the failure.
C7_AbortBeforeValidation ==
    created = "failed" =>
        /\ Done /\ result = "Err"
        /\ validated = "pending" /\ decisions = <<>> /\ ops = <<>>
        /\ Completions = {}
        /\ files = files0
        /\ dirs0 \subseteq dirs
        /\ dirs \ dirs0 \subseteq (Prefixes(output_path) \ {output_path})

\* C7 happens: the creation failed after an ancestor had been created
C7_Witness ==
    created = "failed" /\ dirs # dirs0

\* C8: in a Directory run a failed rename has its 'Error moving' line and
\* leaves the file where it was, and the run goes on: at the end every
\* eligible file of the tree has been tried, the last line is the completion
\* line and the result is Ok.
C8_FailedRenameNotFatal ==
    input_type = "Directory" =>
        /\ \A k \in 1..Len(ops) :
              ~ops[k].ok =>
                  /\ \E i \in 1..Len(sent) : sent[i] = ErrorLine(ops[k].src)
                  /\ ops[k].src \in DOMAIN files
                  /\ files[ops[k].src] = ops[k].id
                  /\ result # "Err"
        /\ (Done /\ Failed > 0) =>
              /\ result = "Ok"
              /\ sent[Len(sent)] = CompletedLine
              /\ \A p \in EligibleAtStart :
                    \E k \in 1..Len(ops) : ops[k].id = files0[p]

\* C8 happens: a finished Directory run with a failed rename followed by a
\* successful one
C8_Witness ==
    /\ Done /\ input_type = "Directory"
    /\ \E j, k \in 1..Len(ops) : j < k /\ ~ops[j].ok /\ ops[k].ok

\* the text is blank: nothing but whitespace
Blank(s) == \A i \in 1..Len(s) : IsWhitespace(s[i])

\* C9: a file is eligible exactly when the filter is empty or its lowercased
\* extension is an entry of the filter; with a blank extensions text every
\* file is eligible, and with a non-empty filter no file without extension is.
C9_Eligibility ==
    \A k \in 1..Len(decisions) :
        LET p == decisions[k].path IN
        /\ decisions[k].move <=>
              \/ Entries(filter_exts) = {}
              \/ /\ extension(p) # None
                 /\ to_lowercase(extension(p)) \in Entries(filter_exts)
        /\ Blank(extensions) => decisions[k].move
        /\ (filter_exts # <<>> /\ extension(p) = None) => ~decisions[k].move

\* C9 happens: with a non-empty filter, one run took a file whose extension
\* matches only after lowercasing and left a file without extension
C9_Witness ==
    /\ filter_exts # <<>>
    /\ \E j, k \in 1..Len(decisions) :
          /\ decisions[j].move
          /\ extension(decisions[j].path) \notin Entries(filter_exts)
          /\ ~decisions[k].move
          /\ extension(decisions[k].path) = None

\* C10: normalising the normalised entries, joined with commas, gives the
\* same set of entries, and each normalised entry is left unchanged by the
\* per-entry steps.
C10_NormalizationIdempotent ==
    nz.step = "twice" =>
        /\ Entries(nz.second) = Entries(nz.first)
        /\ \A e \in Entries(nz.first) : NormalizeEntry(e) = e

\* the reference normalisation, by positions in the text: the pieces between
\* consecutive commas, each cut down to the span from its first to its last
\* non-blank character, then to the part after its leading dots (after the
\* first one only, or after all of them), lowercased, the empty ones dropped
RefPieces(s) ==
    LET commas == {i \in 1..Len(s) : s[i] = ","}
        starts == {1} \cup {i + 1 : i \in commas}
        EndOf(b) == IF \E i \in commas : i >= b
                    THEN (CHOOSE i \in commas : i >= b /\ \A j \in commas : j >= b => i <= j) - 1
                    ELSE Len(s)
        Nth(k) == CHOOSE b \in starts : Cardinality({c \in starts : c < b}) = k - 1
    IN  [k \in 1..Cardinality(starts) |-> SubSeq(s, Nth(k), EndOf(Nth(k)))]

RefTrim(p) ==
    LET ink == {i \in 1..Len(p) : p[i] # " "}
    IN  IF ink = {} THEN <<>>
        ELSE SubSeq(p, CHOOSE i \in ink : \A j \in ink : i <= j,
                       CHOOSE i \in ink : \A j \in ink : i >= j)

RefUndot(p, all) ==
    LET body == {i \in 1..Len(p) : p[i] # "."}
    IN  IF p = <<>> \/ p[1] # "." THEN p
        ELSE IF ~all THEN SubSeq(p, 2, Len(p))
        ELSE IF body = {} THEN <<>>
        ELSE SubSeq(p, CHOOSE i \in body : \A j \in body : i <= j, Len(p))

RefLower(p) == [i \in 1..Len(p) |-> IF p[i] = "T" THEN "t" ELSE IF p[i] = "A" THEN "a" ELSE p[i]]

RefNormalize(s, all) ==
    LET pieces == RefPieces(s)
        mapped == [k \in 1..Len(pieces) |-> RefLower(RefUndot(RefTrim(pieces[k]), all))]
    IN  SelectSeq(mapped, LAMBDA e : Len(e) > 0)

\* C11 as stated: the computed filter is the reference normalisation that
\* removes exactly one leading dot of each entry.
C11_Original ==
    nz.step # "input" => nz.first = RefNormalize(nz.input, FALSE)

\* C11: for every extensions string the computed filter is the reference
\* normalisation: split on comma, trim the surrounding whitespace of each
\* entry, remove all its leading dots, lowercase, and drop the entries that
\* are empty after these steps, in the order typed.
C11_FilterIsReference ==
    nz.step # "input" => nz.first = RefNormalize(nz.input, TRUE)

\* C11 happens: an entry typed with two leading dots and a capital letter
\* was normalised
C11_Witness ==
    /\ nz.step = "once"
    /\ nz.input = <<".", ".", "T">>
    /\ nz.first = << <<"t">> >>

\* a worker thread is inside move_files_thread
Running == pc \notin {"idle", "done"}

\* C12: dropping the receiver at any point of a run does not change the run.
\* A running engine always has its next step, whatever the state of the
\* receiver (it neither blocks nor dies on a send), and between two spawns
\* every change of the engine's state, the renames and the result included,
\* is a step of move_files_thread as it runs when nobody touches the
\* receiver.
C12_DetachedRunUnchanged ==
    /\ [](Running => ENABLED Worker)
    /\ [][Next \/ runs' # runs]_engineVars

\* C12 happens: the receiver was dropped before the input was validated, and
\* the run went on to move a file, sent its lines and returned Ok
C12_Witness ==
    /\ window = "closed"
    /\ dropped_in \in {"create", "validate"}
    /\ Done /\ result = "Ok"
    /\ \E k \in 1..Len(ops) : ops[k].ok
    /\ sent[Len(sent)] = CompletedLine

PathsOf(fs, id) == {p \in DOMAIN fs : fs[p] = id}

\* C14: a run changes the filesystem only by creating the output directory
\* (with its missing parents), by removing eligible files from their source
\* paths and by adding entries directly inside the output directory: no
\* directory disappears, every file that is not eligible and every file a
\* rename of which failed is at the path it had when the run started, with
\* its content, and every entry that is new or changed is a file directly
\* inside the output directory.
C14_FrameOfRun ==
    /\ dirs0 \subseteq dirs
    /\ dirs \ dirs0 \subseteq Prefixes(output_path)
    /\ \A p \in DOMAIN files0 :
          \/ p \in DOMAIN files /\ files[p] = files0[p]
          \/ /\ should_move(filter_exts, p)
             /\ \A k \in 1..Len(ops) : ops[k].id = files0[p] => ops[k].ok
    /\ \A p \in DOMAIN files :
          \/ p \in DOMAIN files0 /\ files0[p] = files[p]
          \/ parent(p) = output_path

\* C15: a run started on a finite tree always ends, with the completion
\* line or with an error return, whatever the directory walk returns of the
\* entries the run itself creates, also when the output directory lies
\* inside the input tree or is the input directory.
C15_RunTerminates == <>Done

\* C15 happens: the output directory is inside the input tree, the walk has
\* come back to a file the run had already renamed there, and the run has
\* ended
C15_Witness ==
    /\ Done
    /\ Under(output_path, input_path)
    /\ revisits > 0
    /\ \E j, k \in 1..Len(ops) : j < k /\ ops[j].id = ops[k].id /\ ops[k].ok

\* C16: at most one engine worker runs at any time. A thread is spawned only
\* while is_moving is false and no worker is inside move_files_thread; while
\* is_moving is true the button code spawns nothing and leaves log, log_rx
\* and is_moving as they are; is_moving stays true as long as a worker runs
\* and is cleared only once the worker has returned and dropped its sender.
C16_OneWorkerAtATime ==
    /\ [](Running => is_moving)
    /\ [][runs' # runs => (~is_moving /\ ~Running /\ is_moving')]_vars
    /\ [][(is_moving /\ ui_pc = "panel" /\ window' = "open") =>
            (runs' = runs /\ log' = log /\ log_rx' = log_rx /\ is_moving')]_vars
    /\ [][(is_moving /\ ~is_moving') => ~SenderAlive]_vars

\* C16 happens: the button code is reached while the worker of the first run
\* has renamed a file and is still running
C16_Witness ==
    /\ window = "open"
    /\ ui_pc = "panel"
    /\ is_moving
    /\ Running
    /\ runs = 1
    /\ \E k \in 1..Len(ops) : ops[k].ok

\* C17: after a started run has ended, whatever way it ended (Ok, error of
\* directory creation, error of input validation), the UI, as long as the
\* window is open and update keeps being called, eventually sees the
\* disconnected channel and sets is_moving to false and log_rx to None; and
\* whenever is_moving is false the button code can start a new run.
C17_EndOfRunIsObserved ==
    /\ (Done /\ is_moving /\ window = "open") ~>
            ((~is_moving /\ log_rx = "None") \/ window = "closed")
    /\ []((~is_moving /\ window = "open" /\ ui_pc = "panel" /\ runs < MaxRuns) =>
            ENABLED (ClickMove /\ runs' = runs + 1))

\* C17 happens: a run that failed to create the output directory has ended
\* and the UI has seen the channel disconnected
C17_Witness ==
    /\ runs >= 1
    /\ Done /\ result = "Err" /\ created = "failed"
    /\ window = "open"
    /\ ~is_moving
    /\ log_rx = "None"

====
